---- MODULE Spec2Model ----
(***************************************************************************)
(* BLIP messages of LiteCore (src/src/blip/Message.cc): MessageBuilder,    *)
(* MessageOut's construction, and MessageIn's frame reassembly, property   *)
(* lookup, ACK flow control and completion.                                *)
(*                                                                         *)
(* A byte string (slice, alloc_slice, the content of a Writer) is a        *)
(* sequence of runs <<byte, count>>, count >= 1, no two neighbouring runs  *)
(* of the same byte: every string has exactly one such form, so equality   *)
(* of strings is equality of values, and a 120000-byte body is one run.    *)
(* A nullable slice is <<>> (nullslice) or <<s>> (the slice s).            *)
(***************************************************************************)
EXTENDS Integers, Sequences, FiniteSets

\* ------------------------------------------------------------ byte strings

RECURSIVE size(_)
\* slice::size: the number of bytes.
size(s) == IF s = <<>> THEN 0 ELSE Head(s)[2] + size(Tail(s))

\* Writer::write / operator<<: t appended to s.
cat(s, t) ==
    IF s = <<>> THEN t
    ELSE IF t = <<>> THEN s
    ELSE IF s[Len(s)][1] = t[1][1]
         THEN SubSeq(s, 1, Len(s) - 1)
              \o << <<t[1][1], s[Len(s)][2] + t[1][2]>> >> \o Tail(t)
         ELSE s \o t

RECURSIVE first(_, _)
\* slice(buf, k): the first k bytes of s (all of s when it is shorter).
first(s, k) ==
    IF k <= 0 \/ s = <<>> THEN <<>>
    ELSE IF Head(s)[2] <= k
         THEN <<Head(s)>> \o first(Tail(s), k - Head(s)[2])
         ELSE << <<Head(s)[1], k>> >>

RECURSIVE moveStart(_, _)
\* slice::moveStart: s without its first k bytes.
moveStart(s, k) ==
    IF k <= 0 \/ s = <<>> THEN s
    ELSE IF Head(s)[2] <= k
         THEN moveStart(Tail(s), k - Head(s)[2])
         ELSE << <<Head(s)[1], Head(s)[2] - k>> >> \o Tail(s)

\* slice::operator()(off, len): len bytes of s from offset off.
sub(s, off, len) == first(moveStart(s, off), len)

RECURSIVE byteAt(_, _)
\* slice::operator[]: the byte at offset i (0-based), i < size(s).
byteAt(s, i) ==
    IF i < Head(s)[2] THEN Head(s)[1] ELSE byteAt(Tail(s), i - Head(s)[2])

RECURSIVE Str(_)
\* The byte string of a literal given byte by byte.
Str(f) == IF f = <<>> THEN <<>> ELSE cat(<< <<Head(f), 1>> >>, Str(Tail(f)))

\* n copies of the byte b.
Fill(b, n) == IF n = 0 THEN <<>> ELSE << <<b, n>> >>

\* findByte('\0') == nullptr
hasNoNul(s) == \A i \in 1..Len(s) : s[i][1] # 0

nullslice == <<>>
Some(s) == <<s>>

\* ------------------------------------------------------------ varint.hh

RECURSIVE PutUVarIntFlat(_)
PutUVarIntFlat(n) ==
    IF n < 128 THEN <<n>> ELSE <<128 + (n % 128)>> \o PutUVarIntFlat(n \div 128)

\* PutUVarInt: LEB128, 7 data bits per byte, continuation bit high, minimal.
PutUVarInt(n) == Str(PutUVarIntFlat(n))

kMaxVarintLen64 == 10

RECURSIVE DecodeUVarInt(_, _, _, _)
\* The varint at the front of s, read from offset i on: [ok, lo, hi, len]. The
\* value is hi * 2^28 + lo: lo holds the first four 7-bit groups, hi the later
\* ones, kept only up to 16 (a value with hi >= 16 does not fit 32 bits).
DecodeUVarInt(s, i, lo, hi) ==
    IF i >= size(s) \/ i >= kMaxVarintLen64
    THEN [ok |-> FALSE, lo |-> 0, hi |-> 0, len |-> 0]
    ELSE LET b == byteAt(s, i)
             d == b % 128
             lo1 == IF i < 4 THEN lo + d * 128^i ELSE lo
             hi1 == IF i < 4 THEN hi
                    ELSE IF i = 4 THEN (IF d < 16 THEN d ELSE 16)
                    ELSE IF d > 0 THEN 16 ELSE hi
         IN  IF b < 128
             THEN [ok |-> TRUE, lo |-> lo1, hi |-> hi1, len |-> i + 1]
             ELSE DecodeUVarInt(s, i + 1, lo1, hi1)

\* What ReadUVarInt32 gives for the decoded varint d at the front of s.
ReadResult(s, d) ==
    IF d.ok /\ d.hi < 16
    THEN [ok |-> TRUE,
          value |-> IF d.hi < 8 THEN d.hi * 2^28 + d.lo ELSE 2^31 - 1,
          rest |-> moveStart(s, d.len)]
    ELSE [ok |-> FALSE, value |-> 0, rest |-> s]

\* ReadUVarInt32(&frame, &n): false when the slice ends inside the varint or
\* the value exceeds 32 bits; otherwise the value, and the slice moved past it.
\* (Values from 2^31 on are beyond the integers of TLC and are given
\* as 2^31 - 1; no frame of the model declares such a size.)
ReadUVarInt32(s) == ReadResult(s, DecodeUVarInt(s, 0, 0, 0))

\* ------------------------------------------------------------ constants

\* Property names/values that are encoded as single bytes (first is Ctrl-A).
kSpecialProperties ==
    <<
        Str(<<80, 114, 111, 102, 105, 108, 101>>),   \* 1 "Profile"
        Str(<<69, 114, 114, 111, 114, 45, 67, 111, 100, 101>>),   \* 2 "Error-Code"
        Str(<<69, 114, 114, 111, 114, 45, 68, 111, 109, 97, 105, 110>>),   \* 3 "Error-Domain"
        Str(<<67, 111, 110, 116, 101, 110, 116, 45, 84, 121, 112, 101>>),   \* 4 "Content-Type"
        Str(<<97, 112, 112, 108, 105, 99, 97, 116, 105, 111, 110, 47, 106, 115, 111, 110>>),   \* 5 "application/json"
        Str(<<97, 112, 112, 108, 105, 99, 97, 116, 105, 111, 110, 47, 111, 99, 116, 101, 116, 45, 115, 116, 114, 101, 97, 109>>),   \* 6 "application/octet-stream"
        Str(<<116, 101, 120, 116, 47, 112, 108, 97, 105, 110, 59, 32, 99, 104, 97, 114, 115, 101, 116, 61, 85, 84, 70, 45, 56>>),   \* 7 "text/plain; charset=UTF-8"
        Str(<<116, 101, 120, 116, 47, 120, 109, 108>>),   \* 8 "text/xml"
        Str(<<65, 99, 99, 101, 112, 116>>),   \* 9 "Accept"
        Str(<<67, 97, 99, 104, 101, 45, 67, 111, 110, 116, 114, 111, 108>>),   \* 10 "Cache-Control"
        Str(<<109, 117, 115, 116, 45, 114, 101, 118, 97, 108, 105, 100, 97, 116, 101>>),   \* 11 "must-revalidate"
        Str(<<73, 102, 45, 77, 97, 116, 99, 104>>),   \* 12 "If-Match"
        Str(<<73, 102, 45, 78, 111, 110, 101, 45, 77, 97, 116, 99, 104>>),   \* 13 "If-None-Match"
        Str(<<76, 111, 99, 97, 116, 105, 111, 110>>)   \* 14 "Location"
    >>

kIncomingAckThreshold == 50000

kPropertiesSizeReserved == 1

\* Message types and frame flags (a flags byte is modelled by its fields).
kRequestType == "Request"
kResponseType == "Response"
kErrorType == "Error"
kAckRequestType == "AckRequest"
kAckResponseType == "AckResponse"

FrameFlags(t, u, c, n, m) ==
    [type |-> t, urgent |-> u, compressed |-> c, noReply |-> n, moreComing |-> m]

\* outFlags | kMoreComing
withMoreComing(f, m) == [f EXCEPT !.moreComing = m]

\* ------------------------------------------------------------ Writer

\* Writer::reserveSpace(n): n zero bytes appended, to be rewritten later.
reserveSpace(out, n) == cat(out, Fill(0, n))

\* Writer::rewrite(pos, bytes) at the position reserved at the head of out.
rewrite(out, bytes) == cat(bytes, moveStart(out, size(bytes)))

\* ------------------------------------------------------------ MessageBuilder

\* MessageBuilder::MessageBuilder(): one byte reserved for the properties size.
NewMessageBuilder(t, u) ==
    [out |-> reserveSpace(<<>>, kPropertiesSizeReserved),
     propertiesSizePos |-> TRUE,
     type |-> t, urgent |-> u, compressed |-> FALSE, noreply |-> FALSE]

\* MessageBuilder::flags()
flags(mb) == FrameFlags(mb.type, mb.urgent, mb.compressed, mb.noreply, FALSE)

\* tokenize with the token counted from 0: (uint8_t)(special - kSpecialProperties).
tokenizeFromZero(str) ==
    IF \E i \in 1..Len(kSpecialProperties) : kSpecialProperties[i] = str
    THEN Str(<<(CHOOSE i \in 1..Len(kSpecialProperties) : kSpecialProperties[i] = str) - 1>>)
    ELSE str

\* Abbreviates certain special strings as a single byte.
tokenize(str) ==
    IF \E i \in 1..Len(kSpecialProperties) : kSpecialProperties[i] = str
    THEN Str(<<CHOOSE i \in 1..Len(kSpecialProperties) : kSpecialProperties[i] = str>>)
    ELSE str

\* The assertions of addProperty(slice, slice) on a name or a value.
legalProperty(s) == hasNoNul(s) /\ (s = <<>> \/ s[1][1] >= 32)

\* addProperty(slice name, slice value)
addProperty(mb, name, value) ==
    [mb EXCEPT !.out = cat(cat(cat(cat(@, tokenize(name)), Fill(0, 1)),
                               tokenize(value)), Fill(0, 1))]

RECURSIVE DecimalDigits(_)
DecimalDigits(n) ==
    IF n < 10 THEN <<48 + n>> ELSE DecimalDigits(n \div 10) \o <<48 + (n % 10)>>

\* sprintf(valueStr, "%d", value)
sprintf_d(value) ==
    Str(IF value < 0 THEN <<45>> \o DecimalDigits(-value) ELSE DecimalDigits(value))

\* addProperty(slice name, int value)
addPropertyInt(mb, name, value) == addProperty(mb, name, sprintf_d(value))

\* finishProperties, lines 143-153: the encoded size is written over the
\* placeholder when it is one byte; otherwise the output is written again
\* behind it (_out.extractOutput() is the whole output, reserved byte included).
putPropertiesSize(mb, encodedSize) ==
    IF size(encodedSize) = 1
    THEN [mb EXCEPT !.out = rewrite(@, encodedSize), !.propertiesSizePos = FALSE]
    ELSE [mb EXCEPT !.out = cat(encodedSize, @), !.propertiesSizePos = FALSE]

\* MessageBuilder::finishProperties()
finishProperties(mb) ==
    IF mb.propertiesSizePos
    THEN putPropertiesSize(mb, PutUVarInt(size(mb.out) - kPropertiesSizeReserved))
    ELSE mb

\* _out.write(data)
writeOut(mb, data) == [mb EXCEPT !.out = cat(@, data)]

\* MessageBuilder::write(slice data)
write(mb, data) ==
    writeOut(IF mb.propertiesSizePos THEN finishProperties(mb) ELSE mb, data)

\* return _out.extractOutput(): the payload, and the builder left behind.
takeOutput(mb) == [payload |-> mb.out, mb |-> [mb EXCEPT !.out = <<>>]]

\* MessageBuilder::extractOutput()
extractOutput(mb) == takeOutput(finishProperties(mb))

\* MessageBuilder::reset(): sizeof(uint16_t) = 2 bytes are reserved.
reset(mb) == [mb EXCEPT !.out = reserveSpace(<<>>, 2), !.propertiesSizePos = TRUE]

\* ------------------------------------------------------------ MessageIn

\* MessageIn::MessageIn(connection, flags, n)
NewMessageIn(f, n) ==
    [flags |-> f, number |-> n, in |-> <<>>, propertiesSize |-> 0,
     properties |-> nullslice, body |-> nullslice, unackedBytes |-> 0,
     future |-> "null"]

\* Message::isResponse()
isResponse(m) == m.flags.type = kResponseType

\* NewMessageOut with a pending response for every message that may be
\* replied to, whatever its type.
NewMessageOutPendingUnlessNoReply(f, payload, n) ==
    [flags |-> f, number |-> n, payload |-> payload, bytesSent |-> 0,
     unackedBytes |-> 0,
     pendingResponse |->
        IF ~f.noReply
        THEN <<[flags |-> FrameFlags(kResponseType, FALSE, FALSE, FALSE, FALSE),
                number |-> n, in |-> <<>>, propertiesSize |-> 0,
                properties |-> nullslice, body |-> nullslice, unackedBytes |-> 0,
                future |-> "null"]>>
        ELSE <<>>]

\* MessageOut::MessageOut(connection, flags, payload, number)
NewMessageOut(f, payload, n) ==
    [flags |-> f, number |-> n, payload |-> payload, bytesSent |-> 0,
     unackedBytes |-> 0,
     pendingResponse |->
        IF f.type = kRequestType /\ ~f.noReply
        THEN <<NewMessageIn(FrameFlags(kResponseType, FALSE, FALSE, FALSE, FALSE), n)>>
        ELSE <<>>]

\* MessageIn::createFutureResponse()
createFutureResponse(m) == [m EXCEPT !.future = "pending"]

\* messageComplete with the delegate called before the future is fulfilled.
messageCompleteDelegateFirst(m) ==
    [msg |-> [m EXCEPT !.future = "null"],
     calls |-> (IF m.flags.type = kRequestType
                THEN << <<"onRequestReceived", m.number>> >>
                ELSE << <<"onResponseReceived", m.number>> >>)
               \o (IF m.future # "null" THEN << <<"fulfil", m.number>> >> ELSE <<>>)]

\* messageComplete dispatching on isResponse(): an Error goes to
\* onRequestReceived.
messageCompleteByIsResponse(m) ==
    [msg |-> [m EXCEPT !.future = "null"],
     calls |-> (IF m.future # "null" THEN << <<"fulfil", m.number>> >> ELSE <<>>)
               \o (IF isResponse(m)
                   THEN << <<"onResponseReceived", m.number>> >>
                   ELSE << <<"onRequestReceived", m.number>> >>)]

\* MessageIn::messageComplete(): the future is fulfilled, then the delegate
\* is called; `calls` lists what was called, in order.
messageComplete(m) ==
    [msg |-> [m EXCEPT !.future = "null"],
     calls |-> (IF m.future # "null" THEN << <<"fulfil", m.number>> >> ELSE <<>>)
               \o (IF m.flags.type = kRequestType
                   THEN << <<"onRequestReceived", m.number>> >>
                   ELSE << <<"onResponseReceived", m.number>> >>)]

Thrown(what, m) ==
    [thrown |-> what, ret |-> FALSE, msg |-> m, sent |-> <<>>, calls |-> <<>>]

\* receivedFrame, lines 295-296: messageComplete(); return true.
rfDone(c, acks) ==
    [thrown |-> "", ret |-> TRUE, msg |-> c.msg, sent |-> acks, calls |-> c.calls]

\* rfComplete without the check that the properties have been received.
rfCompleteUnchecked(m, frameFlags, acks) ==
    IF frameFlags.moreComing
    THEN [thrown |-> "", ret |-> FALSE, msg |-> m, sent |-> acks, calls |-> <<>>]
    ELSE rfDone(messageComplete([m EXCEPT !.body = Some(m.in[1]), !.in = <<>>]), acks)

\* receivedFrame, lines 286-297, after _in->write(frame): the message is
\* complete on a frame without kMoreComing.
rfComplete(m, frameFlags, acks) ==
    IF frameFlags.moreComing
    THEN [thrown |-> "", ret |-> FALSE, msg |-> m, sent |-> acks, calls |-> <<>>]
    ELSE IF m.properties = nullslice
    THEN [thrown |-> "message ends before end of properties", ret |-> FALSE,
          msg |-> m, sent |-> acks, calls |-> <<>>]
    ELSE rfDone(messageComplete([m EXCEPT !.body = Some(m.in[1]), !.in = <<>>]), acks)

\* receivedFrame, line 284: the rest of the frame is appended to the Writer.
rfBody(m, frame, frameFlags, acks) ==
    rfComplete([m EXCEPT !.in = <<cat(@[1], frame)>>], frameFlags, acks)

\* The ACK of lines 273-279.
newAck(m, bytesReceived) ==
    NewMessageOut(FrameFlags(IF isResponse(m) THEN kAckResponseType ELSE kAckRequestType,
                             TRUE, FALSE, TRUE, FALSE),
                  PutUVarInt(bytesReceived), m.number)

\* rfAck with the threshold applied to bytesReceived instead of _unackedBytes.
rfAckOnTotal(m, frame, frameFlags, bytesReceived) ==
    IF bytesReceived >= kIncomingAckThreshold
    THEN rfBody([m EXCEPT !.unackedBytes = 0], frame, frameFlags,
                <<newAck(m, bytesReceived)>>)
    ELSE rfBody([m EXCEPT !.unackedBytes = @ + size(frame)], frame, frameFlags, <<>>)

\* rfAck without _unackedBytes = 0 after the ACK.
rfAckNoReset(m, frame, frameFlags, bytesReceived) ==
    IF m.unackedBytes + size(frame) >= kIncomingAckThreshold
    THEN rfBody([m EXCEPT !.unackedBytes = @ + size(frame)], frame, frameFlags,
                <<newAck(m, bytesReceived)>>)
    ELSE rfBody([m EXCEPT !.unackedBytes = @ + size(frame)], frame, frameFlags, <<>>)

\* rfAck with the ACK sent only above the threshold (> for >=).
rfAckAbove(m, frame, frameFlags, bytesReceived) ==
    IF m.unackedBytes + size(frame) > kIncomingAckThreshold
    THEN rfBody([m EXCEPT !.unackedBytes = 0], frame, frameFlags,
                <<newAck(m, bytesReceived)>>)
    ELSE rfBody([m EXCEPT !.unackedBytes = @ + size(frame)], frame, frameFlags, <<>>)

\* receivedFrame, lines 270-282: an ACK is sent every 50k bytes.
rfAck(m, frame, frameFlags, bytesReceived) ==
    IF m.unackedBytes + size(frame) >= kIncomingAckThreshold
    THEN rfBody([m EXCEPT !.unackedBytes = 0], frame, frameFlags,
                <<newAck(m, bytesReceived)>>)
    ELSE rfBody([m EXCEPT !.unackedBytes = @ + size(frame)], frame, frameFlags, <<>>)

\* receivedFrame, lines 264-268: the properties just completed must end in 0.
rfCheckProperties(m, frame, frameFlags, bytesReceived) ==
    IF size(m.properties[1]) > 0
       /\ byteAt(m.properties[1], size(m.properties[1]) - 1) # 0
    THEN Thrown("message properties not null-terminated", m)
    ELSE rfAck(m, frame, frameFlags, bytesReceived)

\* rfProperties without frame.moveStart(remaining): the bytes of the
\* properties stay in the frame.
rfPropertiesKeepFrame(m, frame, frameFlags, bytesReceived) ==
    IF m.properties = nullslice /\ size(m.in[1]) + size(frame) >= m.propertiesSize
    THEN rfCheckProperties(
            [m EXCEPT !.properties =
                         Some(cat(m.in[1], first(frame, m.propertiesSize - size(m.in[1])))),
                      !.in = << <<>> >>],
            frame, frameFlags, bytesReceived)
    ELSE rfAck(m, frame, frameFlags, bytesReceived)

\* receivedFrame, lines 259-268: the properties are taken out of the Writer
\* once the frame brings their last byte.
rfProperties(m, frame, frameFlags, bytesReceived) ==
    IF m.properties = nullslice /\ size(m.in[1]) + size(frame) >= m.propertiesSize
    THEN rfCheckProperties(
            [m EXCEPT !.properties =
                         Some(cat(m.in[1], first(frame, m.propertiesSize - size(m.in[1])))),
                      !.in = << <<>> >>],
            moveStart(frame, m.propertiesSize - size(m.in[1])),
            frameFlags, bytesReceived)
    ELSE rfAck(m, frame, frameFlags, bytesReceived)

\* receivedFrame, lines 250-256: m already has the flags of the first frame;
\* rd is what ReadUVarInt32 made of the frame.
rfFirstFrame(m, frame, frameFlags, rd) ==
    IF m.flags.compressed
    THEN Thrown("compression isn't supported yet", m)
    ELSE IF ~rd.ok
    THEN Thrown("frame too small", [m EXCEPT !.in = << <<>> >>])
    ELSE rfProperties([m EXCEPT !.in = << <<>> >>, !.propertiesSize = rd.value],
                      rd.rest, frameFlags, size(frame))

\* MessageIn::receivedFrame(frame, frameFlags): the message afterwards, what
\* it returned or threw, the ACKs handed to the connection and the calls made.
receivedFrame(m, frame, frameFlags) ==
    IF m.in # <<>>
    THEN rfProperties(m, frame, frameFlags, size(frame) + size(m.in[1]))
    ELSE rfFirstFrame([m EXCEPT !.flags = frameFlags], frame, frameFlags,
                      ReadUVarInt32(frame))

RECURSIVE nulFrom(_, _)
\* key + strlen(key): the offset of the first 0 byte at or after offset i.
nulFrom(s, i) ==
    IF i >= size(s) \/ byteAt(s, i) = 0 THEN i ELSE nulFrom(s, i + 1)

RECURSIVE propertyFrom(_, _, _)
\* The loop of MessageIn::property, with key at offset `key`.
propertyFrom(props, name, key) ==
    IF key >= size(props) THEN nullslice
    ELSE LET endOfKey == nulFrom(props, key)
             val == endOfKey + 1
             endOfVal == nulFrom(props, val)
         IN  IF val >= size(props) THEN nullslice
             ELSE IF name = sub(props, key, endOfKey - key)
                  THEN Some(sub(props, val, endOfVal - val))
                  ELSE propertyFrom(props, name, endOfVal + 1)

\* MessageIn::property(slice property)
property(m, name) ==
    IF m.properties = nullslice THEN nullslice
    ELSE propertyFrom(m.properties[1], name, 0)

RECURSIVE Bytes(_)
\* The bytes of a slice, one by one (std::string of slice::asString).
Bytes(s) ==
    IF s = <<>> THEN <<>>
    ELSE IF Head(s)[2] = 1 THEN <<Head(s)[1]>> \o Bytes(Tail(s))
    ELSE <<Head(s)[1]>> \o Bytes(<< <<Head(s)[1], Head(s)[2] - 1>> >> \o Tail(s))

RECURSIVE skipSpace(_)
\* strtol: white space before the number is skipped.
skipSpace(b) ==
    IF b # <<>> /\ (b[1] = 32 \/ b[1] \in 9..13) THEN skipSpace(Tail(b)) ELSE b

\* strtol: the number without its sign.
unsigned(b) == IF b # <<>> /\ b[1] \in {43, 45} THEN Tail(b) ELSE b

RECURSIVE digitsValue(_, _)
\* strtol: the value of the decimal digits b behind the value acc.
digitsValue(b, acc) ==
    IF b = <<>> THEN acc ELSE digitsValue(Tail(b), 10 * acc + (b[1] - 48))

\* strtol(value, &end, 10) with *end == '\0': the string is, after white
\* space, an optional sign and one or more decimal digits, and nothing else.
isNumber(b) ==
    /\ unsigned(skipSpace(b)) # <<>>
    /\ \A i \in 1..Len(unsigned(skipSpace(b))) : unsigned(skipSpace(b))[i] \in 48..57

\* The result of strtol on such a string.
strtol(b) ==
    IF skipSpace(b)[1] = 45
    THEN 0 - digitsValue(unsigned(skipSpace(b)), 0)
    ELSE digitsValue(unsigned(skipSpace(b)), 0)

\* intProperty, lines 368-374, on the value found.
intValue(value, defaultValue) ==
    IF value = <<>> THEN defaultValue
    ELSE IF isNumber(value) THEN strtol(value) ELSE defaultValue

\* MessageIn::intProperty(name, defaultValue)
intProperty(m, name, defaultValue) ==
    intValue(IF property(m, name) = nullslice THEN <<>> ELSE Bytes(property(m, name)[1]),
             defaultValue)

\* Message::isError()
isError(m) == m.flags.type = kErrorType

\* MessageIn::errorDomain()
errorDomain(m) ==
    IF ~isError(m) THEN nullslice ELSE property(m, kSpecialProperties[3])  \* "Error-Domain"

\* MessageIn::errorCode(); the default value of intProperty is 0.
errorCode(m) ==
    IF ~isError(m) THEN 0 ELSE intProperty(m, kSpecialProperties[2], 0)    \* "Error-Code"

\* MessageBuilder::MessageBuilder(MessageIn *inReplyTo), after its assertions.
NewReplyBuilder(inReplyTo) == NewMessageBuilder(kResponseType, inReplyTo.flags.urgent)

\* The assertions of MessageBuilder(MessageIn *inReplyTo).
mayReplyTo(inReplyTo) == ~isResponse(inReplyTo) /\ ~inReplyTo.flags.noReply

sErrorDomain == kSpecialProperties[3]
sErrorMessage ==
    Str(<<69, 114, 114, 111, 114, 45, 77, 101, 115, 115, 97, 103, 101>>)  \* "Error-Message"

\* makeError, lines 92-93: the message is added when there is one.
addErrorMessage(mb, message) ==
    IF message # nullslice THEN addProperty(mb, sErrorMessage, message[1]) ELSE mb

\* MessageBuilder::makeError(domain, code, message); domain is not null.
makeError(mb, domain, code, message) ==
    addErrorMessage(
        addPropertyInt(addProperty([mb EXCEPT !.type = kErrorType], sErrorDomain, domain[1]),
                       kSpecialProperties[2], code),      \* "Error-Code"
        message)

\* The outcome of a call that an assertion stopped.
AssertionFailed(mb) == [failed |-> TRUE, mb |-> mb, sent |-> <<>>]

\* respond, lines 333-334: new MessageOut(_connection, mb, _number), which takes
\* mb.flags() and mb.extractOutput(), is handed to _connection->send.
respondSend(m, x, f) ==
    [failed |-> FALSE, mb |-> x.mb, sent |-> <<NewMessageOut(f, x.payload, m.number)>>]

\* respond, lines 331-332.
respondCoerced(mb) ==
    IF mb.type = kRequestType THEN [mb EXCEPT !.type = kResponseType] ELSE mb

\* MessageIn::respond(MessageBuilder &mb); asserts: assertions are compiled in.
respond(m, mb, asserts) ==
    IF asserts /\ m.flags.noReply
    THEN AssertionFailed(mb)
    ELSE respondSend(m, extractOutput(respondCoerced(mb)), flags(respondCoerced(mb)))

\* MessageIn::respondWithError(domain, code, message)
respondWithError(m, domain, code, message, asserts) ==
    IF asserts /\ ~mayReplyTo(m)
    THEN AssertionFailed(NewReplyBuilder(m))
    ELSE respond(m, makeError(NewReplyBuilder(m), domain, code, message), asserts)

\* ------------------------------------------------------------ MessageOut

\* frameOfSize with kMoreComing decided before _bytesSent is advanced.
frameOfSizeFlagsFirst(o, sz) ==
    [frame |-> sub(o.payload, o.bytesSent, sz),
     outFlags |-> withMoreComing(o.flags, o.bytesSent < size(o.payload)),
     out |-> [o EXCEPT !.bytesSent = @ + sz, !.unackedBytes = @ + sz]]

\* nextFrameToSend, lines 202-208, for a frame of sz bytes.
frameOfSize(o, sz) ==
    [frame |-> sub(o.payload, o.bytesSent, sz),
     outFlags |-> withMoreComing(o.flags, o.bytesSent + sz < size(o.payload)),
     out |-> [o EXCEPT !.bytesSent = @ + sz, !.unackedBytes = @ + sz]]

\* nextFrameToSend with the counters advanced by maxSize instead of the size
\* of the frame.
nextFrameToSendCountMax(o, maxSize) ==
    [frame |-> sub(o.payload, o.bytesSent,
                   IF maxSize < size(o.payload) - o.bytesSent
                   THEN maxSize ELSE size(o.payload) - o.bytesSent),
     outFlags |-> withMoreComing(o.flags, o.bytesSent + maxSize < size(o.payload)),
     out |-> [o EXCEPT !.bytesSent = @ + maxSize, !.unackedBytes = @ + maxSize]]

\* nextFrameToSend with frames that stay below maxSize.
nextFrameToSendBelowMax(o, maxSize) ==
    frameOfSize(o, IF maxSize = 0 THEN 0
                   ELSE IF maxSize - 1 < size(o.payload) - o.bytesSent
                   THEN maxSize - 1 ELSE size(o.payload) - o.bytesSent)

\* MessageOut::nextFrameToSend(maxSize, outFlags): the frame, its flags and
\* the message afterwards.
nextFrameToSend(o, maxSize) ==
    frameOfSize(o, IF maxSize < size(o.payload) - o.bytesSent
                   THEN maxSize ELSE size(o.payload) - o.bytesSent)

\* receivedAck with _unackedBytes = _bytesSent - byteCount, without the min.
receivedAckAssign(o, byteCount) ==
    IF byteCount <= o.bytesSent
    THEN [o EXCEPT !.unackedBytes = o.bytesSent - byteCount]
    ELSE o

\* MessageOut::receivedAck(uint32_t byteCount)
receivedAck(o, byteCount) ==
    IF byteCount <= o.bytesSent
    THEN [o EXCEPT !.unackedBytes =
                      IF @ < o.bytesSent - byteCount THEN @ ELSE o.bytesSent - byteCount]
    ELSE o

\* MessageOut::futureResponse(): "future" with the pending response's
\* createFutureResponse(), FutureResponse{} ("empty") without a pending response.
futureResponse(o) ==
    IF o.pendingResponse # <<>>
    THEN [future |-> "future",
          out |-> [o EXCEPT !.pendingResponse = <<createFutureResponse(@[1])>>]]
    ELSE [future |-> "empty", out |-> o]

\* ------------------------------------------------------------ inputs

MaxProps == 2
MaxWrites == 2
MaxFrames == 4

MessageNumbers == {7}

\* The flags a message is given by the application that builds it.
MessageKinds ==
    { <<kRequestType, FALSE>>, <<kResponseType, FALSE>>, <<kErrorType, TRUE>> }

sProfile == kSpecialProperties[1]
sErrorCode == kSpecialProperties[2]
sJSON == kSpecialProperties[5]
sK == Str(<<107>>)                                            \* "k"
sSubChanges == Str(<<115, 117, 98, 67, 104, 97, 110, 103, 101, 115>>) \* "subChanges"
sLong124 == Fill(118, 124)                                    \* "vvv...v"
sLong125 == Fill(118, 125)

\* The properties an application adds: <<name, value>>.
Properties ==
    { <<sProfile, sSubChanges>>, <<sProfile, sJSON>>, <<sK, sJSON>>,
      <<sK, sLong124>>, <<sK, sLong125>> }
IntProperties == { <<sErrorCode, 42>>, <<sErrorCode, -7>> }
BodyWrites == {Str(<<120, 121>>), Str(<<122>>)}                \* "xy", "z"

\* The arguments of makeError and respondWithError.
sHTTP == Str(<<72, 84, 84, 80>>)                               \* "HTTP"
ErrorDomains == {sHTTP, sJSON}
ErrorCodes == {404, -1}
ErrorMessages == {nullslice, Some(Str(<<120>>))}

\* The sizes a peer cuts frames to, and those this side's connection uses.
PeerFrameSizes == {1, 2, 40000, 40001, 50000, 200000}
OwnFrameSizes == {129, 200000}
FrameSizes == PeerFrameSizes \cup OwnFrameSizes

\* UVarInt(|P|) || P || B
MkPayload(P, B) == cat(cat(PutUVarInt(size(P)), P), B)

pAB == Str(<<97, 0, 98, 0>>)                                  \* a=b
pTok == Str(<<1, 0, 5, 0>>)                                   \* Profile=application/json
p128 == cat(cat(Str(<<107, 0>>), sLong125), Fill(0, 1))       \* k=vvv...v, 128 bytes

\* Error-Domain=x, Error-Code=7 by a peer that abbreviates nothing.
pRaw ==
    cat(cat(cat(cat(kSpecialProperties[3], Fill(0, 1)), Str(<<120, 0>>)),
            kSpecialProperties[2]), Str(<<0, 55, 0>>))

\* Well-formed messages of a peer: <<properties, body>>.
PeerMessages ==
    { <<pRaw, <<>>>>, <<<<>>, <<>>>>, <<<<>>, Str(<<120, 121>>)>>,
      <<pAB, <<>>>>, <<pAB, Str(<<120, 0, 121>>)>>, <<pTok, Str(<<120>>)>>,
      <<p128, <<>>>>, <<p128, Str(<<120, 121>>)>>,
      <<<<>>, Fill(98, 49999)>>, <<pAB, Fill(98, 100000)>>,
      <<<<>>, Fill(98, 100000)>>, <<<<>>, Fill(98, 120000)>> }

\* Malformed payloads of a peer.
BadPayloads ==
    { Str(<<128>>),                                  \* the varint is cut short
      Str(<<128, 128, 128, 128, 16, 97, 0>>),        \* 2^32: beyond 32 bits
      Fill(128, 11),                                 \* a varint without end
      Str(<<4, 97, 0, 98, 99, 120>>),                \* properties end in "c"
      Str(<<10, 97, 0, 98, 99, 0>>) }                \* 10 declared, 5 there

\* ------------------------------------------------------------ state

VARIABLES
    mb,         \* the MessageBuilder of the message being built
    added,      \* the addProperty calls made on it, in order
    written,    \* the bytes passed to write, in order
    origin,     \* "none", then who built the message: "builder" or "peer"
    peer,       \* for a well-formed peer message: <<properties, body>>
    mout,       \* the sender's MessageOut of the message: <<>> or <<MessageOut>>
    inflight,   \* the frame in the transport: <<>> or <<[frame, flags]>>
    msg,        \* the receiver's MessageIn of the message
    sent,       \* the messages the MessageIn handed to connection->send
    calls,      \* the future fulfilments and delegate calls made, in order
    last,       \* the last receivedFrame call: what it got and what it did
    stats,      \* the frames received so far: count, bytes, sizes, and the
                \* frames (1, 2, ...) on which an ACK was sent
    pending,    \* the MessageOut of the request that msg is the pending response
                \* of: <<>> or <<MessageOut>>
    lastOp,     \* the last call made on an object outside the transfer of frames
                \* (receivedAck, reset, respond, ...): what it got and what it did
    taken       \* the frames that nextFrameToSend returned when it was called
                \* without a receiver, in order

vars == <<mb, added, written, origin, peer, mout, inflight, msg, sent, calls, last, stats, pending,
         lastOp, taken>>

NoCall ==
    [ret |-> "none", thrown |-> "", moreComing |-> FALSE, frameSize |-> 0,
     first |-> FALSE, sent |-> <<>>, calls |-> <<>>, future |-> "null",
     unackedBefore |-> 0]

\* No call has been made yet.
NoOp == [op |-> "none"]

NoFrames ==
    [n |-> 0, bytes |-> 0, min |-> 0, max |-> 0, firstSize |-> 0, acksAt |-> <<>>]

\* The MessageOut of the request numbered n that a response of type t answers.
RequestOf(t, n) ==
    IF t = kRequestType THEN <<>>
    ELSE <<NewMessageOut(FrameFlags(kRequestType, FALSE, FALSE, FALSE, FALSE),
                         Str(<<0>>), n)>>

\* The MessageIn that receives a message numbered n: for a request the one the
\* connection allocates; for a response or error the pending response that
\* the MessageOut of the request created.
ReceiverOf(request, n) ==
    IF request = <<>>
    THEN NewMessageIn(FrameFlags(kRequestType, FALSE, FALSE, FALSE, FALSE), n)
    ELSE request[1].pendingResponse[1]

Init ==
    /\ \E k \in MessageKinds : \E n \in MessageNumbers :
          /\ mb = NewMessageBuilder(k[1], k[2])
          /\ pending = RequestOf(k[1], n)
          /\ msg = ReceiverOf(RequestOf(k[1], n), n)
    /\ added = <<>>
    /\ written = <<>>
    /\ origin = "none"
    /\ peer = <<>>
    /\ mout = <<>>
    /\ inflight = <<>>
    /\ sent = <<>>
    /\ calls = <<>>
    /\ last = NoCall
    /\ stats = NoFrames
    /\ lastOp = NoOp
    /\ taken = <<>>

\* ------------------------------------------------------------ actions

\* mb.addProperty(name, value)
AddProperty(name, value) ==
    /\ origin = "none" /\ mb.propertiesSizePos
    /\ Len(added) < MaxProps
    /\ legalProperty(name) /\ legalProperty(value)
    /\ mb' = addProperty(mb, name, value)
    /\ added' = Append(added, <<name, "slice", value>>)
    /\ UNCHANGED <<written, origin, peer, mout, inflight, msg, sent, calls, last, stats, pending, lastOp, taken>>

\* mb.addProperty(name, int)
AddPropertyInt(name, value) ==
    /\ origin = "none" /\ mb.propertiesSizePos
    /\ Len(added) < MaxProps
    /\ legalProperty(name)
    /\ mb' = addPropertyInt(mb, name, value)
    /\ added' = Append(added, <<name, "int", value>>)
    /\ UNCHANGED <<written, origin, peer, mout, inflight, msg, sent, calls, last, stats, pending, lastOp, taken>>

\* mb.makeError(domain, code, message) on the new builder of a response.
MakeError(domain, code, message) ==
    /\ origin = "none" /\ mb.propertiesSizePos
    /\ added = <<>>
    /\ mb.type # kRequestType
    /\ mb' = makeError(mb, domain, code, message)
    /\ added' = << <<sErrorDomain, "slice", domain[1]>>, <<sErrorCode, "int", code>> >>
                 \o (IF message = nullslice THEN <<>>
                     ELSE << <<sErrorMessage, "slice", message[1]>> >>)
    /\ UNCHANGED <<written, origin, peer, mout, inflight, msg, sent, calls, last, stats, pending, lastOp, taken>>

\* mb.write(data)
Write(data) ==
    /\ origin = "none"
    /\ Len(written) < MaxWrites
    /\ mb' = write(mb, data)
    /\ written' = Append(written, data)
    /\ UNCHANGED <<added, origin, peer, mout, inflight, msg, sent, calls, last, stats, pending, lastOp, taken>>

\* The message x built is handed to the connection as a MessageOut.
Sending(x, f) ==
    /\ mb' = x.mb
    /\ mout' = <<NewMessageOut(f, x.payload, msg.number)>>
    /\ origin' = "builder"
    /\ UNCHANGED <<added, written, peer, inflight, msg, sent, calls, last, stats, pending, lastOp, taken>>

\* new MessageOut(connection, mb, number): the builder's flags and its
\* extractOutput(); the message is handed to the connection to be sent.
Send ==
    /\ origin = "none"
    /\ Sending(extractOutput(mb), flags(mb))

\* A peer sends a well-formed message that it built itself.
PeerSend(pb, compressed) ==
    /\ origin = "none" /\ mb = NewMessageBuilder(mb.type, mb.urgent)
    /\ mout' = <<NewMessageOut([flags(mb) EXCEPT !.compressed = compressed],
                               MkPayload(pb[1], pb[2]), msg.number)>>
    /\ origin' = "peer"
    /\ peer' = pb
    /\ UNCHANGED <<mb, added, written, inflight, msg, sent, calls, last, stats, pending, lastOp, taken>>

\* A peer sends a payload that is no message.
PeerSendBad(payload) ==
    /\ origin = "none" /\ mb = NewMessageBuilder(mb.type, mb.urgent)
    /\ mout' = <<NewMessageOut(flags(mb), payload, msg.number)>>
    /\ origin' = "bad"
    /\ UNCHANGED <<mb, added, written, peer, inflight, msg, sent, calls, last, stats, pending, lastOp, taken>>

\* The frame f that nextFrameToSend gave goes to the transport.
Transmit(f) ==
    /\ mout' = <<f.out>>
    /\ inflight' = <<[frame |-> f.frame, flags |-> f.outFlags]>>
    /\ UNCHANGED <<mb, added, written, origin, peer, msg, sent, calls, last, stats, pending, lastOp, taken>>

\* The sender's connection takes the next frame of the message, of at most
\* maxSize bytes, and writes it to the transport.
NextFrameToSend(maxSize) ==
    /\ mout # <<>> /\ inflight = <<>>
    /\ mout[1].bytesSent < size(mout[1].payload)
    /\ stats.n < MaxFrames
    /\ maxSize \in (IF origin = "builder" THEN OwnFrameSizes ELSE PeerFrameSizes)
    /\ Transmit(nextFrameToSend(mout[1], maxSize))

\* The outcome r of receivedFrame on the frame f of sz bytes.
Received(f, sz, r) ==
    /\ msg' = r.msg
    /\ sent' = sent \o r.sent
    /\ calls' = calls \o r.calls
    /\ last' = [ret |-> IF r.thrown # "" THEN "throw"
                        ELSE IF r.ret THEN "true" ELSE "false",
                thrown |-> r.thrown, moreComing |-> f.flags.moreComing,
                frameSize |-> sz, first |-> stats.n = 0,
                sent |-> r.sent, calls |-> r.calls, future |-> msg.future,
                unackedBefore |-> msg.unackedBytes]
    /\ stats' = [stats EXCEPT
                   !.n = @ + 1, !.bytes = @ + sz,
                   !.min = IF stats.n = 0 \/ sz < @ THEN sz ELSE @,
                   !.max = IF sz > @ THEN sz ELSE @,
                   !.firstSize = IF stats.n = 0 THEN sz ELSE @,
                   !.acksAt = IF r.sent = <<>> THEN @ ELSE Append(@, stats.n + 1)]
    /\ inflight' = <<>>
    /\ UNCHANGED <<mb, added, written, origin, peer, mout, pending, lastOp, taken>>

\* The receiver's connection passes the frame to the MessageIn; it stops
\* reading once a frame was refused with a protocol error.
ReceivedFrame ==
    /\ inflight # <<>>
    /\ last.ret # "throw"
    /\ Received(inflight[1], size(inflight[1].frame),
                receivedFrame(msg, inflight[1].frame, inflight[1].flags))

\* The application asks the MessageOut of its request for the future of the
\* response: MessageOut::futureResponse(), on the pending response.
FutureResponse ==
    /\ pending # <<>>
    /\ msg.future = "null"
    /\ msg' = createFutureResponse(msg)
    /\ UNCHANGED <<mb, added, written, origin, peer, mout, inflight, sent, calls, last,
                   stats, pending, lastOp, taken>>

Next ==
    \/ \E p \in Properties : AddProperty(p[1], p[2])
    \/ \E p \in IntProperties : AddPropertyInt(p[1], p[2])
    \/ \E data \in BodyWrites : Write(data)
    \/ \E domain \in ErrorDomains : \E code \in ErrorCodes : \E message \in ErrorMessages :
          MakeError(Some(domain), code, message)
    \/ Send
    \/ \E pb \in PeerMessages : \E c \in BOOLEAN : PeerSend(pb, c)
    \/ \E payload \in BadPayloads : PeerSendBad(payload)
    \/ \E maxSize \in FrameSizes : NextFrameToSend(maxSize)
    \/ ReceivedFrame
    \/ FutureResponse

Spec == Init /\ [][Next]_vars

\* ------------------------------------------------------------ claims

\* The message has been received to its last frame.
AllReceived ==
    /\ mout # <<>> /\ inflight = <<>>
    /\ mout[1].bytesSent = size(mout[1].payload)
    /\ stats.n >= 1

\* A well-formed message of a peer, sent without the Compressed flag.
WellFormed == origin = "peer" /\ ~mout[1].flags.compressed

\* What the call did that `last` describes, for a frame with or without
\* MoreComing, when the message is <<P, B>>.
Reassembled(P, B) ==
    IF last.moreComing
    THEN last.ret = "false"
    ELSE /\ last.ret = "true"
         /\ msg.properties = Some(P)
         /\ msg.body = Some(B)

\* C1 as stated: a well-formed message is reassembled wherever the frames are
\* cut, also inside the size varint.
C1_AnyCut ==
    (WellFormed /\ stats.n >= 1) => Reassembled(peer[1], peer[2])

\* C1, amended: when the first frame holds the whole size varint, every call
\* with MoreComing returns false, the last call returns true, and afterwards
\* properties = P and body = B, wherever else the frames are cut (inside the
\* properties block, between properties and body, inside the body, |P| = 0).
C1_CutAfterVarint ==
    (WellFormed /\ stats.n >= 1
       /\ stats.firstSize >= size(PutUVarInt(size(peer[1]))))
    => Reassembled(peer[1], peer[2])

\* A 128-byte properties block received in three or more frames, the first of
\* which ends right behind the 2-byte size varint.
C1_Witness ==
    /\ WellFormed /\ AllReceived
    /\ peer = <<p128, Str(<<120, 121>>)>>
    /\ stats.firstSize = 2 /\ stats.n >= 3
    /\ last.ret = "true"
    /\ msg.body = Some(Str(<<120, 121>>))

\* The wire form of a property name or value: the byte i for the i-th
\* well-known string, the string itself otherwise.
WireForm(str) ==
    IF \E i \in 1..14 : kSpecialProperties[i] = str
    THEN Str(<<CHOOSE i \in 1..14 : kSpecialProperties[i] = str>>)
    ELSE str

\* The decimal rendering of the integer values the model adds.
DecimalOf(v) ==
    CASE v = 42 -> Str(<<52, 50>>)          \* "42"
      [] v = -7 -> Str(<<45, 55>>)          \* "-7"
      [] v = 404 -> Str(<<52, 48, 52>>)     \* "404"
      [] v = -1 -> Str(<<45, 49>>)          \* "-1"

\* The wire form of one addProperty call <<name, kind, value>>.
PairBytes(a) ==
    cat(cat(cat(WireForm(a[1]), Fill(0, 1)),
            IF a[2] = "int" THEN DecimalOf(a[3]) ELSE WireForm(a[3])),
        Fill(0, 1))

RECURSIVE ExpectedProps(_)
\* The properties block of the addProperty calls a, in insertion order.
ExpectedProps(a) ==
    IF a = <<>> THEN <<>> ELSE cat(PairBytes(Head(a)), ExpectedProps(Tail(a)))

RECURSIVE ExpectedBody(_)
\* The bytes of the write calls w, in order.
ExpectedBody(w) ==
    IF w = <<>> THEN <<>> ELSE cat(Head(w), ExpectedBody(Tail(w)))

\* One byte holding |P|, then P, then B.
ShortPayload(P, B) == cat(cat(Str(<<size(P)>>), P), B)

\* C2: with a properties block P of at most 127 bytes, the payload of a
\* freshly constructed builder is one byte holding |P|, then P (the
\* addProperty calls in insertion order, names and values tokenized, integers
\* in decimal), then the written bytes in order; Error-Code=42 alone gives
\* 05 02 00 34 32 00, and nothing at all gives the single byte 00.
C2_ShortPayload ==
    origin = "builder" =>
       /\ size(ExpectedProps(added)) <= 127 =>
             mout[1].payload = ShortPayload(ExpectedProps(added), ExpectedBody(written))
       /\ (added = << <<sErrorCode, "int", 42>> >> /\ written = <<>>) =>
             mout[1].payload = Str(<<5, 2, 0, 52, 50, 0>>)
       /\ (added = <<>> /\ written = <<>>) => mout[1].payload = Str(<<0>>)

\* A 127-byte properties block (k=vvv...v), the largest whose size fits one
\* byte, with two writes behind it.
C2_Witness ==
    /\ origin = "builder"
    /\ added = << <<sK, "slice", sLong124>> >>
    /\ Len(written) = 2
    /\ byteAt(mout[1].payload, 0) = 127

\* The message was built by the builder and received in a single frame.
BuiltAndReceivedWhole ==
    origin = "builder" /\ AllReceived /\ stats.n = 1

\* C3 as stated: with a properties block P of 128 bytes or more the payload
\* is the multi-byte UVarInt(|P|), then P, then the body, without the reserved
\* byte, and a MessageIn fed this payload recovers P and the body.
C3_LongPayload ==
    (origin = "builder" /\ size(ExpectedProps(added)) >= 128) =>
       /\ mout[1].payload = MkPayload(ExpectedProps(added), ExpectedBody(written))
       /\ BuiltAndReceivedWhole =>
             /\ last.ret = "true"
             /\ msg.properties = Some(ExpectedProps(added))
             /\ msg.body = Some(ExpectedBody(written))

\* C4 as stated: a message built with one addProperty(name, value) and
\* delivered whole gives property(name) = value, the full strings, also when
\* the name or the value is a well-known string sent as a token.
C4_PropertyRoundTrip ==
    (BuiltAndReceivedWhole /\ Len(added) = 1 /\ added[1][2] = "slice"
       /\ size(ExpectedProps(added)) <= 127)
    => /\ last.ret = "true"
       /\ property(msg, added[1][1]) = Some(added[1][3])

\* The fulfilment of the future and the delegate's call for a response
\* numbered n.
FulfilThenDelegate(n) == << <<"fulfil", n>>, <<"onResponseReceived", n>> >>

\* C5: a future obtained before the reply is complete stays unfulfilled on
\* every frame that does not complete the response; the call that completes
\* it fulfils the future once, with the MessageIn numbered as the request,
\* and then calls on_response_received once.
C5_FutureThenDelegate ==
    (pending # <<>> /\ last.ret # "none" /\ last.future = "pending") =>
       /\ last.ret # "true" =>
             /\ msg.future = "pending"
             /\ calls = <<>>
       /\ last.ret = "true" =>
             /\ ~last.moreComing
             /\ msg.number = pending[1].number
             /\ last.calls = FulfilThenDelegate(pending[1].number)
             /\ calls = last.calls

\* A response received in two or more frames whose future was obtained first.
C5_Witness ==
    /\ pending # <<>> /\ last.future = "pending"
    /\ stats.n >= 2 /\ last.ret = "true"
    /\ calls = FulfilThenDelegate(7)

\* The delegate's calls among the calls c.
DelegateCalls(c) ==
    SelectSeq(c, LAMBDA x : x[1] \in {"onRequestReceived", "onResponseReceived"})

\* C6: receivedFrame returns true exactly for a frame without MoreComing that
\* raises no error; on that call the delegate is called once,
\* on_request_received for a Request and on_response_received for a Response
\* or Error; no other call calls the delegate or fulfils a future.
C6_CompletionDispatch ==
    last.ret # "none" =>
       /\ (last.ret = "true") <=> (~last.moreComing /\ last.thrown = "")
       /\ last.ret = "true" =>
             /\ DelegateCalls(last.calls) =
                   << <<IF msg.flags.type = kRequestType
                        THEN "onRequestReceived" ELSE "onResponseReceived",
                        msg.number>> >>
             /\ msg.flags.type \in {kRequestType, kResponseType, kErrorType}
             /\ calls = last.calls
       /\ last.ret # "true" => (last.calls = <<>> /\ calls = <<>>)

\* An Error message completed by its third frame.
C6_Witness ==
    /\ last.ret = "true" /\ stats.n = 3
    /\ msg.flags.type = kErrorType
    /\ calls = << <<"onResponseReceived", 7>> >>

\* The payloads whose size varint is malformed, cut short or beyond 32 bits.
BadVarint == {Str(<<128>>), Str(<<128, 128, 128, 128, 16, 97, 0>>), Fill(128, 11)}

\* The first frame has Compressed set.
CaseCompressed == stats.n = 1 /\ mout[1].flags.compressed

\* The first frame does not hold a size varint of 32 bits.
CaseBadVarint ==
    /\ stats.n = 1
    /\ \/ origin = "bad" /\ mout[1].payload \in BadVarint
       \/ origin = "peer" /\ stats.firstSize < size(PutUVarInt(size(peer[1])))

\* The properties block is complete and ends in "c".
CaseNotTerminated ==
    origin = "bad" /\ mout[1].payload = Str(<<4, 97, 0, 98, 99, 120>>) /\ stats.bytes >= 5

\* The last frame has come with 5 of the 10 bytes of properties declared.
CaseTruncated ==
    origin = "bad" /\ mout[1].payload = Str(<<10, 97, 0, 98, 99, 0>>) /\ stats.bytes = 6

\* C7: in each of these cases receivedFrame raises a protocol error and in
\* that call neither sets body, nor returns true, nor calls the delegate, nor
\* fulfils a future.
C7_ProtocolErrors ==
    (CaseCompressed \/ CaseBadVarint \/ CaseNotTerminated \/ CaseTruncated) =>
       /\ last.ret = "throw"
       /\ msg.body = nullslice
       /\ last.calls = <<>> /\ calls = <<>>
       /\ CaseCompressed => last.thrown = "compression isn't supported yet"
       /\ (CaseBadVarint /\ ~CaseCompressed) => last.thrown = "frame too small"
       /\ CaseNotTerminated => last.thrown = "message properties not null-terminated"
       /\ CaseTruncated => last.thrown = "message ends before end of properties"

\* Declared size 10 with only 5 bytes received, in two frames, with a future
\* waiting for the response.
C7_Witness ==
    /\ CaseTruncated /\ stats.n = 2
    /\ last.ret = "throw" /\ last.future = "pending"

\* C8 as stated: every ACK carries the MessageIn's number, has type
\* AckResponse for a response and AckRequest otherwise, has Urgent and NoReply
\* set, and has as body the UVarInt of all payload bytes received so far, the
\* current frame, the size varint and the properties included.
C8_AckContents ==
    \A i \in 1..Len(last.sent) :
       /\ last.sent[i].number = msg.number
       /\ last.sent[i].flags =
             FrameFlags(IF msg.flags.type = kResponseType
                        THEN kAckResponseType ELSE kAckRequestType,
                        TRUE, FALSE, TRUE, FALSE)
       /\ last.sent[i].payload = PutUVarInt(stats.bytes)

\* ceil(T / kIncomingAckThreshold)
AckCeiling(T) == (T + kIncomingAckThreshold - 1) \div kIncomingAckThreshold

\* C9 as stated: a message of T bytes makes the MessageIn emit at least
\* ceil(T / 50000) - 1 and at most ceil(T / 50000) ACKs.
C9_AckCountBetween ==
    (WellFormed /\ AllReceived /\ last.ret = "true") =>
       /\ Len(sent) >= AckCeiling(stats.bytes) - 1
       /\ Len(sent) <= AckCeiling(stats.bytes)

\* C9, amended: a message of T bytes makes the MessageIn emit at most
\* ceil(T / 50000) ACKs (there is no lower bound but 0: a frame however large
\* is acknowledged by one ACK).
C9_AckCountAtMost ==
    (WellFormed /\ AllReceived /\ last.ret = "true") =>
       Len(sent) <= AckCeiling(stats.bytes)

\* A message of 100001 bytes reassembled from frames of 50000, 1 and 50000
\* bytes, with an ACK on the second and on the third.
C9_Witness ==
    /\ WellFormed /\ AllReceived /\ last.ret = "true"
    /\ stats.bytes = 100001 /\ stats.acksAt = <<2, 3>>
    /\ Len(sent) = 2

\* The request 00 || 120000 bytes has been received in 3 equal frames.
ThreeEqualFrames ==
    /\ WellFormed /\ AllReceived /\ last.ret = "true"
    /\ peer = << <<>>, Fill(98, 120000) >>
    /\ pending = <<>>
    /\ stats.n = 3 /\ stats.min >= 40000 /\ stats.max <= 40001

AckRequestFlags == FrameFlags(kAckRequestType, TRUE, FALSE, TRUE, FALSE)

\* C10 as stated: the MessageIn emits exactly 2 ACKs, each
\* AckRequest | Urgent | NoReply, with bodies UVarInt(50000) and
\* UVarInt(100000).
C10_TwoAcks ==
    ThreeEqualFrames =>
       /\ Len(sent) = 2
       /\ \A i \in 1..Len(sent) : sent[i].flags = AckRequestFlags
       /\ sent[1].payload = PutUVarInt(50000)
       /\ sent[2].payload = PutUVarInt(100000)

\* C10, amended: the MessageIn emits exactly 1 ACK, AckRequest | Urgent |
\* NoReply with the request's number, on the second frame (no frame ends at
\* byte 50000 or 100000, and an ACK is sent at the end of a frame).
C10_OneAck ==
    ThreeEqualFrames =>
       /\ Len(sent) = 1
       /\ sent[1].flags = AckRequestFlags
       /\ sent[1].number = msg.number
       /\ stats.acksAt = <<2>>

\* The three frames are 40001, 40000 and 40000 bytes.
C10_Witness ==
    /\ ThreeEqualFrames
    /\ stats.firstSize = 40001
    /\ Len(sent) = 1

\* ------------------------------------------------------------ MessageOut alone
\* A MessageOut that its connection drains with nextFrameToSend while ACKs of
\* the peer arrive and the application asks for the future of the response.

MaxCalls == 4

OutNumbers == {7, 9}

\* The flags of the messages that are sent: requests with and without
\* NoReply, responses, errors and the ACKs of receivedFrame.
OutFlags ==
    { FrameFlags(kRequestType, FALSE, FALSE, FALSE, FALSE),
      FrameFlags(kRequestType, TRUE, FALSE, TRUE, FALSE),
      FrameFlags(kResponseType, FALSE, FALSE, FALSE, FALSE),
      FrameFlags(kErrorType, TRUE, FALSE, FALSE, FALSE),
      FrameFlags(kAckRequestType, TRUE, FALSE, TRUE, FALSE),
      FrameFlags(kAckResponseType, TRUE, FALSE, TRUE, FALSE) }

OutPayloads ==
    { <<>>, Str(<<0>>), Str(<<1, 0, 2>>), Str(<<4, 97, 0, 98, 0, 120>>), Fill(98, 500) }
OutFrameSizes == {0, 1, 2, 4, 500, 1000}
AckCounts == {0, 2, 5, 400, 10000}

\* The variables that a specification without builder and receiver leaves at
\* their initial values.
NoTransfer ==
    /\ mb = NewMessageBuilder(kRequestType, FALSE)
    /\ added = <<>>
    /\ written = <<>>
    /\ origin = "none"
    /\ peer = <<>>
    /\ inflight = <<>>
    /\ sent = <<>>
    /\ calls = <<>>
    /\ last = NoCall
    /\ stats = NoFrames

InitOut ==
    /\ NoTransfer
    /\ \E f \in OutFlags : \E payload \in OutPayloads : \E n \in OutNumbers :
          /\ mout = <<NewMessageOut(f, payload, n)>>
          /\ msg = NewMessageIn(FrameFlags(kRequestType, FALSE, FALSE, FALSE, FALSE), n)
    /\ pending = <<>>
    /\ lastOp = NoOp
    /\ taken = <<>>

\* The call gave the frame f.
Took(maxSize, f) ==
    /\ mout' = <<f.out>>
    /\ taken' = Append(taken, f.frame)
    /\ lastOp' = [op |-> "nextFrameToSend", arg |-> maxSize, before |-> mout[1],
                  frame |-> f.frame, outFlags |-> f.outFlags]
    /\ UNCHANGED <<mb, added, written, origin, peer, inflight, msg, sent, calls, last,
                   stats, pending>>

\* mout->nextFrameToSend(maxSize, outFlags), whatever is left of the message.
OutNextFrameToSend(maxSize) ==
    /\ Len(taken) < MaxCalls
    /\ Took(maxSize, nextFrameToSend(mout[1], maxSize))

\* mout->receivedAck(byteCount)
OutReceivedAck(byteCount) ==
    /\ mout' = <<receivedAck(mout[1], byteCount)>>
    /\ lastOp' = [op |-> "receivedAck", arg |-> byteCount, before |-> mout[1]]
    /\ UNCHANGED <<mb, added, written, origin, peer, inflight, msg, sent, calls, last,
                   stats, pending, taken>>

\* The call returned the future r.future.
GotFuture(r) ==
    /\ mout' = <<r.out>>
    /\ lastOp' = [op |-> "futureResponse", before |-> mout[1], future |-> r.future]
    /\ UNCHANGED <<mb, added, written, origin, peer, inflight, msg, sent, calls, last,
                   stats, pending, taken>>

\* mout->futureResponse(), with no future of the response outstanding.
OutFutureResponse ==
    /\ IF mout[1].pendingResponse = <<>> THEN TRUE
       ELSE mout[1].pendingResponse[1].future = "null"
    /\ GotFuture(futureResponse(mout[1]))

\* mout->futureResponse() while a future is outstanding: assert(!_future) of
\* createFutureResponse stops the call, or, compiled out, a new future
\* replaces the one given before.
OutFutureResponseAgain(asserts) ==
    /\ mout[1].pendingResponse # <<>> /\ mout[1].pendingResponse[1].future # "null"
    /\ IF asserts
       THEN /\ lastOp' = [op |-> "futureResponse", before |-> mout[1],
                          future |-> "assertion failed"]
            /\ UNCHANGED <<mb, added, written, origin, peer, mout, inflight, msg, sent,
                           calls, last, stats, pending, taken>>
       ELSE GotFuture(futureResponse(mout[1]))

NextOut ==
    \/ \E maxSize \in OutFrameSizes : OutNextFrameToSend(maxSize)
    \/ \E byteCount \in AckCounts : OutReceivedAck(byteCount)
    \/ OutFutureResponse
    \/ \E asserts \in BOOLEAN : OutFutureResponseAgain(asserts)

SpecOut == InitOut /\ [][NextOut]_vars

\* C11: receivedAck(k) with k > bytes_sent leaves unacked unchanged; with
\* k <= bytes_sent, unacked becomes min(previous unacked, bytes_sent - k), so
\* unacked <= bytes_sent - k; the same call made again changes nothing; the
\* call never raises unacked and never changes bytes_sent or the payload.
C11_ReceivedAck ==
    lastOp.op = "receivedAck" =>
        /\ lastOp.arg > lastOp.before.bytesSent =>
              mout[1].unackedBytes = lastOp.before.unackedBytes
        /\ lastOp.arg <= lastOp.before.bytesSent =>
              /\ mout[1].unackedBytes =
                    IF lastOp.before.unackedBytes < lastOp.before.bytesSent - lastOp.arg
                    THEN lastOp.before.unackedBytes
                    ELSE lastOp.before.bytesSent - lastOp.arg
              /\ mout[1].unackedBytes <= mout[1].bytesSent - lastOp.arg
        /\ receivedAck(mout[1], lastOp.arg) = mout[1]
        /\ mout[1].unackedBytes <= lastOp.before.unackedBytes
        /\ mout[1].bytesSent = lastOp.before.bytesSent
        /\ mout[1].payload = lastOp.before.payload

\* 500 bytes are sent and none acknowledged; receivedAck(400) leaves 100.
C11_Witness ==
    /\ lastOp.op = "receivedAck" /\ lastOp.arg = 400
    /\ lastOp.before.bytesSent = 500 /\ lastOp.before.unackedBytes = 500
    /\ mout[1].unackedBytes = 100

\* C12: after any nextFrameToSend calls (max_size 0 and max_size beyond the
\* payload included) and any receivedAck calls, bytes_sent <= payload length
\* and unacked <= bytes_sent.
C12_OutCounters ==
    /\ mout[1].bytesSent <= size(mout[1].payload)
    /\ mout[1].unackedBytes <= mout[1].bytesSent

\* A call with max_size 0, then the 500 bytes in one frame, an ACK, and a
\* call with max_size 1000 on the drained message.
C12_Witness ==
    /\ lastOp.op = "nextFrameToSend" /\ lastOp.arg = 1000
    /\ Len(taken) = 3 /\ taken[1] = <<>> /\ taken[2] = Fill(98, 500) /\ taken[3] = <<>>
    /\ mout[1].bytesSent = 500 /\ mout[1].unackedBytes = 100

RECURSIVE CatAll(_)
\* The frames of a sequence, one behind the other.
CatAll(frames) ==
    IF frames = <<>> THEN <<>> ELSE cat(Head(frames), CatAll(Tail(frames)))

\* min(max_size, remaining) before the last nextFrameToSend call.
FrameLength ==
    IF lastOp.arg < size(lastOp.before.payload) - lastOp.before.bytesSent
    THEN lastOp.arg
    ELSE size(lastOp.before.payload) - lastOp.before.bytesSent

\* C13: nextFrameToSend(max_size) returns the min(max_size, remaining) bytes
\* at offset bytes_sent and advances bytes_sent and unacked by that amount;
\* its flags are the message's, with MoreComing exactly when bytes remain
\* unsent after the call; the frames of successive calls concatenate to the
\* payload; on a drained message it returns an empty slice without MoreComing
\* and changes no counter.
C13_NextFrame ==
    /\ CatAll(taken) = first(mout[1].payload, mout[1].bytesSent)
    /\ mout[1].bytesSent = size(mout[1].payload) => CatAll(taken) = mout[1].payload
    /\ lastOp.op = "nextFrameToSend" =>
          /\ size(lastOp.frame) = FrameLength
          /\ lastOp.frame = sub(lastOp.before.payload, lastOp.before.bytesSent, FrameLength)
          /\ mout[1].bytesSent = lastOp.before.bytesSent + FrameLength
          /\ mout[1].unackedBytes = lastOp.before.unackedBytes + FrameLength
          /\ mout[1].payload = lastOp.before.payload
          /\ lastOp.outFlags =
                [lastOp.before.flags EXCEPT
                    !.moreComing = mout[1].bytesSent < size(mout[1].payload)]
          /\ lastOp.before.bytesSent = size(lastOp.before.payload) =>
                /\ lastOp.frame = <<>>
                /\ ~lastOp.outFlags.moreComing
                /\ mout[1] = lastOp.before

\* The 6 bytes 04 61 00 62 00 78 leave as 04 61, then 00 62 00 78, and a
\* third call finds the message drained.
C13_Witness ==
    /\ lastOp.op = "nextFrameToSend"
    /\ Len(taken) = 3
    /\ taken[1] = Str(<<4, 97>>) /\ taken[2] = Str(<<0, 98, 0, 120>>) /\ taken[3] = <<>>
    /\ lastOp.before.bytesSent = 6

\* The message is a request that may be replied to.
ExpectsReply(o) == o.flags.type = kRequestType /\ ~o.flags.noReply

\* C14: a MessageOut holds a pending-response MessageIn exactly when it is a
\* Request without NoReply, and that MessageIn has the MessageOut's number; a
\* futureResponse() call that returns gives a real future in that case and an
\* empty future for every other message.
C14_PendingResponse ==
    /\ mout[1].pendingResponse # <<>> <=> ExpectsReply(mout[1])
    /\ mout[1].pendingResponse # <<>> =>
          mout[1].pendingResponse[1].number = mout[1].number
    /\ lastOp.op = "futureResponse" /\ lastOp.future # "assertion failed" =>
          IF ExpectsReply(mout[1])
          THEN lastOp.future = "future" /\ mout[1].pendingResponse[1].future = "pending"
          ELSE lastOp.future = "empty"

\* Request #9 was asked for the future of its response.
C14_Witness ==
    /\ lastOp.op = "futureResponse" /\ lastOp.future = "future"
    /\ mout[1].number = 9 /\ ExpectsReply(mout[1])
    /\ mout[1].pendingResponse[1].number = 9

\* ------------------------------------------------------------ responding
\* A message has been received whole; the application fills a builder and
\* responds to the message, or responds with an error.

\* The flags of the messages received: <<type, urgent, noReply>>.
ReceivedKinds ==
    { <<kRequestType, FALSE, FALSE>>, <<kRequestType, TRUE, FALSE>>,
      <<kRequestType, FALSE, TRUE>>, <<kRequestType, TRUE, TRUE>>,
      <<kResponseType, FALSE, FALSE>>, <<kErrorType, TRUE, FALSE>> }

\* The MessageIn numbered n after its only frame, of flags k and with the
\* payload 00, has been received.
ReceivedWhole(k, n) ==
    receivedFrame(ReceiverOf(RequestOf(k[1], n), n), Str(<<0>>),
                  FrameFlags(k[1], k[2], FALSE, k[3], FALSE)).msg

InitRespond ==
    /\ \E k \in ReceivedKinds : \E n \in OutNumbers :
          /\ msg = ReceivedWhole(k, n)
          /\ pending = RequestOf(k[1], n)
    /\ \E t \in {kRequestType, kResponseType, kErrorType} :
          mb = NewMessageBuilder(t, FALSE)
    /\ added = <<>>
    /\ written = <<>>
    /\ origin = "none"
    /\ peer = <<>>
    /\ mout = <<>>
    /\ inflight = <<>>
    /\ sent = <<>>
    /\ calls = <<>>
    /\ last = NoCall
    /\ stats = NoFrames
    /\ lastOp = NoOp
    /\ taken = <<>>

\* The call `what` made with a builder of type t did r.
Responded(what, t, r) ==
    /\ mb' = r.mb
    /\ sent' = sent \o r.sent
    /\ origin' = "builder"
    /\ lastOp' = [op |-> what, builderType |-> t, failed |-> r.failed, sent |-> r.sent]
    /\ UNCHANGED <<added, written, peer, mout, inflight, msg, calls, last, stats, pending,
                   taken>>

\* msg->respond(mb)
Respond(asserts) ==
    /\ origin = "none"
    /\ Responded("respond", mb.type, respond(msg, mb, asserts))

\* msg->respondWithError(domain, code, message)
RespondWithError(domain, code, message, asserts) ==
    /\ origin = "none" /\ mb = NewMessageBuilder(mb.type, mb.urgent)
    /\ lastOp' = [op |-> "respondWithError", builderType |-> kResponseType,
                  failed |-> respondWithError(msg, domain, code, message, asserts).failed,
                  sent |-> respondWithError(msg, domain, code, message, asserts).sent]
    /\ sent' = sent \o respondWithError(msg, domain, code, message, asserts).sent
    /\ origin' = "builder"
    /\ UNCHANGED <<mb, added, written, peer, mout, inflight, msg, calls, last, stats,
                   pending, taken>>

NextRespond ==
    \/ \E p \in Properties : AddProperty(p[1], p[2])
    \/ \E p \in IntProperties : AddPropertyInt(p[1], p[2])
    \/ \E data \in BodyWrites : Write(data)
    \/ \E asserts \in BOOLEAN : Respond(asserts)
    \/ \E domain \in ErrorDomains : \E code \in ErrorCodes : \E message \in ErrorMessages :
          \E asserts \in BOOLEAN : RespondWithError(Some(domain), code, message, asserts)

SpecRespond == InitRespond /\ [][NextRespond]_vars

\* The message received is a request that may be replied to.
IsRequestToReplyTo == msg.flags.type = kRequestType /\ ~msg.flags.noReply

\* C15: respond(builder) on a received request without NoReply hands exactly
\* one MessageOut to the connection, with the request's number, of a type that
\* is never Request (a builder of type Request sends a Response,
\* respondWithError sends an Error) and without pending response; respond on a
\* message that is no request, or that has NoReply set, is rejected and
\* sends nothing.
C15_Respond ==
    lastOp.op \in {"respond", "respondWithError"} =>
        IF IsRequestToReplyTo
        THEN /\ ~lastOp.failed
             /\ Len(lastOp.sent) = 1 /\ sent = lastOp.sent
             /\ sent[1].number = msg.number
             /\ sent[1].flags.type # kRequestType
             /\ lastOp.builderType = kRequestType /\ lastOp.op = "respond" =>
                   sent[1].flags.type = kResponseType
             /\ lastOp.op = "respondWithError" => sent[1].flags.type = kErrorType
             /\ sent[1].pendingResponse = <<>>
        ELSE lastOp.failed /\ sent = <<>>

\* ------------------------------------------------------------ reset
\* A builder is used, reset once, used again and sent.

\* mb.extractOutput() before the reset.
ExtractOutput ==
    /\ origin = "none" /\ lastOp.op = "none"
    /\ mb.out # <<>>
    /\ mb' = extractOutput(mb).mb
    /\ UNCHANGED <<added, written, origin, peer, mout, inflight, msg, sent, calls, last,
                   stats, pending, lastOp, taken>>

\* mb.reset(); added and written list the calls made since.
Reset ==
    /\ origin = "none" /\ lastOp.op = "none"
    /\ mb' = reset(mb)
    /\ added' = <<>>
    /\ written' = <<>>
    /\ lastOp' = [op |-> "reset"]
    /\ UNCHANGED <<origin, peer, mout, inflight, msg, sent, calls, last, stats, pending,
                   taken>>

NextReset ==
    \/ \E p \in Properties : AddProperty(p[1], p[2])
    \/ \E p \in IntProperties : AddPropertyInt(p[1], p[2])
    \/ \E data \in BodyWrites : Write(data)
    \/ ExtractOutput
    \/ Reset
    \/ Send

SpecReset == Init /\ [][NextReset]_vars

RECURSIVE AddAll(_, _)
\* The addProperty calls of the list a made on the builder b.
AddAll(b, a) ==
    IF a = <<>> THEN b
    ELSE AddAll(IF a[1][2] = "int" THEN addPropertyInt(b, a[1][1], a[1][3])
                ELSE addProperty(b, a[1][1], a[1][3]),
                Tail(a))

RECURSIVE WriteAll(_, _)
\* The write calls of the list w made on the builder b.
WriteAll(b, w) == IF w = <<>> THEN b ELSE WriteAll(write(b, w[1]), Tail(w))

\* What extractOutput gives on a new builder after the calls made on mb
\* since its reset.
FreshPayload ==
    extractOutput(WriteAll(AddAll(NewMessageBuilder(mb.type, mb.urgent), added), written)).payload

\* C16: after reset() a builder behaves like a new one: the same addProperty
\* and write calls followed by extractOutput give the same payload, byte for
\* byte, whatever was done to the builder before the reset.
C16_ResetIsFresh ==
    origin = "builder" /\ lastOp.op = "reset" => mout[1].payload = FreshPayload

\* ------------------------------------------------------------ errors

\* The message was built with makeError and has been received to its end.
ErrorBuiltAndReceived ==
    /\ origin = "builder" /\ last.ret = "true"
    /\ Len(added) >= 2
    /\ added[1][1] = sErrorDomain /\ added[2][1] = sErrorCode /\ added[2][2] = "int"

\* C17: on a received message that is no Error, errorDomain() is empty and
\* errorCode() is 0 whatever its properties; on a received Error that
\* makeError(domain, code, message) built, errorDomain() is domain and
\* errorCode() is code.
C17_ErrorAccessors ==
    /\ last.ret = "true" /\ msg.flags.type # kErrorType =>
          errorDomain(msg) = nullslice /\ errorCode(msg) = 0
    /\ ErrorBuiltAndReceived =>
          /\ msg.flags.type = kErrorType
          /\ errorDomain(msg) = Some(added[1][3])
          /\ errorCode(msg) = added[2][3]

\* ------------------------------------------------------------ receiving

\* C18: in each receivedFrame call the unacked counter of the MessageIn grows
\* by the size of the frame as it was received; an ACK is handed to the
\* connection in that call exactly when the counter has then reached 50000,
\* and the counter is zero afterwards; in every other call no ACK is sent and
\* the counter keeps its increased value.
C18_UnackedByFrameSize ==
    last.ret \in {"true", "false"} =>
        IF last.unackedBefore + last.frameSize >= kIncomingAckThreshold
        THEN Len(last.sent) = 1 /\ msg.unackedBytes = 0
        ELSE last.sent = <<>> /\ msg.unackedBytes = last.unackedBefore + last.frameSize

\* C19: in every state that feeding frames to a MessageIn leads to, the state
\* that a refused frame leaves behind included, properties that are set and
\* not empty end in a 0 byte.
C19_PropertiesTerminated ==
    msg.properties # nullslice /\ size(msg.properties[1]) > 0 =>
        byteAt(msg.properties[1], size(msg.properties[1]) - 1) = 0

\* ------------------------------------------------------------ late frames
\* The transfer of a message, and frames that carry the number of the
\* message and reach its MessageIn after it has completed.

LateFrames ==
    { [frame |-> Str(<<0>>),
       flags |-> FrameFlags(kRequestType, TRUE, FALSE, FALSE, FALSE)],
      [frame |-> Str(<<2, 99, 0, 122>>),
       flags |-> FrameFlags(kResponseType, FALSE, FALSE, FALSE, TRUE)] }

\* A frame for the completed message arrives from the transport.
LateFrame(f) ==
    /\ last.ret = "true" /\ inflight = <<>>
    /\ stats.n < MaxFrames
    /\ inflight' = <<f>>
    /\ UNCHANGED <<mb, added, written, origin, peer, mout, msg, sent, calls, last, stats,
                   pending, lastOp, taken>>

NextLate ==
    \/ \E p \in Properties : AddProperty(p[1], p[2])
    \/ \E data \in BodyWrites : Write(data)
    \/ Send
    \/ \E pb \in PeerMessages : PeerSend(pb, FALSE)
    \/ \E maxSize \in FrameSizes : NextFrameToSend(maxSize)
    \/ ReceivedFrame
    \/ \E f \in LateFrames : LateFrame(f)

SpecLate == Init /\ [][NextLate]_vars

\* The delegate calls among the calls c.
Completions(c) == SelectSeq(c, LAMBDA x : x[1] # "fulfil")

MaxFutures == 2

\* The number of futures that futureResponse() has returned so far.
Returned == IF lastOp.op = "none" THEN 0 ELSE lastOp.returned

\* The number of futures that have been fulfilled so far.
Fulfilled == Len(SelectSeq(calls, LAMBDA x : x[1] = "fulfil"))

\* A response or an error is to arrive for the request.
InitFuture == Init /\ pending # <<>>

\* request->futureResponse(): the pending response creates a future. While a
\* future is outstanding, assert(!_future) stops the call or, compiled out,
\* the new future takes the place of the one returned before.
AskFuture(asserts) ==
    /\ pending # <<>>
    /\ Returned < MaxFutures
    /\ IF lastOp.op = "none" THEN TRUE ELSE ~lastOp.failed
    /\ IF asserts /\ msg.future # "null"
       THEN /\ lastOp' = [op |-> "futureResponse", returned |-> Returned, failed |-> TRUE]
            /\ UNCHANGED msg
       ELSE /\ lastOp' = [op |-> "futureResponse", returned |-> Returned + 1,
                          failed |-> FALSE]
            /\ msg' = createFutureResponse(msg)
    /\ UNCHANGED <<mb, added, written, origin, peer, mout, inflight, sent, calls, last,
                   stats, pending, taken>>

\* The peer's messages in this scenario.
FutureMessages == { <<<<>>, <<>>>>, <<pAB, Str(<<120, 0, 121>>)>> }

NextFuture ==
    \/ \E pb \in FutureMessages : PeerSend(pb, FALSE)
    \/ \E maxSize \in FrameSizes : NextFrameToSend(maxSize)
    \/ ReceivedFrame
    \/ \E asserts \in BOOLEAN : AskFuture(asserts)

\* The transport delivers the frames of the response and the receive side
\* processes each frame that has arrived.
SpecFuture ==
    /\ InitFuture /\ [][NextFuture]_vars
    /\ WF_vars(\E maxSize \in FrameSizes : NextFrameToSend(maxSize))
    /\ WF_vars(ReceivedFrame)

\* The final frame of the response has been processed.
ResponseComplete == last.ret = "true"

\* C21: whatever the interleaving of futureResponse() calls with the
\* processing of the response's frames, no futureResponse() call fails, and
\* once the final frame of the response has been processed every future that
\* was returned is eventually fulfilled, a future first asked for after the
\* completion included.
C21_EveryFutureFulfilled ==
    /\ [](lastOp.op = "futureResponse" => ~lastOp.failed)
    /\ \A k \in 1..MaxFutures :
          (ResponseComplete /\ Returned >= k) ~> (Fulfilled >= k)

\* ------------------------------------------------------------ unacked bytes

\* C22: at the return of every receivedFrame call that raises no error, the
\* unacked counter of the MessageIn is below 50000, whatever the sizes of the
\* frames received so far.
C22_UnackedBelowThreshold ==
    last.ret \in {"true", "false"} => msg.unackedBytes < kIncomingAckThreshold

\* A frame of 100001 bytes, twice the threshold, sent an ACK and left the
\* counter at zero.
C22_Witness ==
    /\ last.ret = "true" /\ last.frameSize = 100001
    /\ Len(last.sent) = 1
    /\ msg.unackedBytes = 0

\* ------------------------------------------------------------ draining

\* Every nextFrameToSend call so far passed max_size >= 1: a call returned an
\* empty frame only on a message that was drained before it.
AllCallsPositive ==
    \A i \in 1..Len(taken) :
        taken[i] = <<>> => size(CatAll(SubSeq(taken, 1, i - 1))) = size(mout[1].payload)

\* C23: on a MessageOut with a payload of L >= 1 bytes, while every
\* nextFrameToSend call passes max_size >= 1: each call made before
\* bytes_sent equals L raises bytes_sent; the message is drained after at
\* most L calls; and a non-empty frame is returned without MoreComing exactly
\* when it is the last one, the frame that drains the message.
C23_Drains ==
    size(mout[1].payload) >= 1 =>
        /\ (/\ lastOp.op = "nextFrameToSend" /\ lastOp.arg >= 1
            /\ lastOp.before.bytesSent < size(mout[1].payload)) =>
               mout[1].bytesSent > lastOp.before.bytesSent
        /\ AllCallsPositive /\ Len(taken) >= size(mout[1].payload) =>
               mout[1].bytesSent = size(mout[1].payload)
        /\ lastOp.op = "nextFrameToSend" /\ lastOp.frame # <<>> =>
               (~lastOp.outFlags.moreComing <=> mout[1].bytesSent = size(mout[1].payload))

\* The 3 bytes 01 00 02 leave one by one, in L = 3 calls; the third frame is
\* the one without MoreComing.
C23_Witness ==
    /\ taken = <<Str(<<1>>), Str(<<0>>), Str(<<2>>)>>
    /\ lastOp.op = "nextFrameToSend" /\ lastOp.arg = 1
    /\ ~lastOp.outFlags.moreComing
    /\ mout[1].bytesSent = 3

====
